---- MODULE Spec2Model ----
(***************************************************************************)
(* nuxt-appwrite, server utilities (runtime/server/utils/appwrite.ts):     *)
(* the privileged singleton accessor useAppwriteAdmin, the per-call        *)
(* accessor useAppwriteJWT and the session verification useAppwriteSession *)
(* with its credential extraction, over a model of the runtime             *)
(* configuration, of the SDK Client objects and of the Appwrite backend;   *)
(* the module setup (module.ts) that fills the configuration store, the    *)
(* browser plugin and the useAppwrite composable.                          *)
(*                                                                         *)
(* JavaScript strings are TLA+ strings; null and undefined are the two     *)
(* reserved strings NULL and UNDEFINED, which no header, cookie, id or     *)
(* configuration value equals.                                             *)
(***************************************************************************)
EXTENDS Integers, Sequences, FiniteSets, TLC

VARIABLES
    config,         \* useRuntimeConfig(): endpoint, projectId, apiKey
    heap,           \* the Client objects built so far; a client is its index
    adminClient,    \* the module-level cache slot _adminClient
    adminReturned,  \* every bundle a useAppwriteAdmin call has returned
    jwtReturned,    \* the bundles useAppwriteJWT calls returned, in order
    lastCall,       \* outcome of the latest direct accessor call
    users,          \* backend: the user records that exist
    sessions,       \* backend: the sessions that exist
    now,            \* Date.now()
    req,            \* the useAppwriteSession calls in flight
    xEvent,         \* credential extraction on its own: the request
    xCreds,         \* credential extraction on its own: the result
    sOptions,       \* module setup: the inline options, defaults merged in
    sEnv,           \* module setup: process.env
    sBefore,        \* module setup: the configuration store setup found
    sStore,         \* nuxt.options.runtimeConfig, the configuration store
    sPhase,         \* module setup: how far the application has come
    cConfig,        \* browser: useRuntimeConfig().public.appwrite
    plugin,         \* browser: the client of the plugin and what it logged
    hr,             \* browser: the hasRole call in flight
    dbCall,         \* browser: the latest query or getDocument call
    ua              \* the useAppwrite calls made and what came of them

setupVars == <<sOptions, sEnv, sBefore, sStore, sPhase>>
clientVars == <<cConfig, plugin, hr, dbCall, ua>>

vars == <<config, heap, adminClient, adminReturned, jwtReturned, lastCall,
          users, sessions, now, req, xEvent, xCreds, setupVars, clientVars>>

-----------------------------------------------------------------------------
(* Bounds of the model *)

MaxJWT == 2
MaxTime == 2

-----------------------------------------------------------------------------
(* JavaScript values *)

NULL == "<null>"
UNDEFINED == "<undefined>"

\* !x for a string | null | undefined
Falsy(x) == x \in {NULL, UNDEFINED, ""}

\* x ?? y
Coalesce(x, y) == IF x \in {NULL, UNDEFINED} THEN y ELSE x

-----------------------------------------------------------------------------
(* Runtime configuration *)

Endpoints == {"", "https://cloud.appwrite.io/v1"}
ProjectIds == {"", "p1"}
ApiKeys == {"", "k1"}

Configs == [endpoint : Endpoints, projectId : ProjectIds, apiKey : ApiKeys]

-----------------------------------------------------------------------------
(* SDK objects *)

\* new Client(): no endpoint, project, key or JWT set
NewClient == [endpoint |-> UNDEFINED, project |-> UNDEFINED,
              key |-> UNDEFINED, jwt |-> UNDEFINED]

NoBundle == [client |-> 0, services |-> {}]

AdminServices == {"account", "databases", "users", "teams", "storage",
                  "messaging", "functions"}
JWTServices == {"account", "databases", "storage", "teams", "functions"}

\* what a call leaves behind: it either returns value or throws error
Returned(v, cache, hp) ==
    [threw |-> FALSE, value |-> v, error |-> NULL, cache |-> cache, heap |-> hp]
Threw(e, cache, hp) ==
    [threw |-> TRUE, value |-> NoBundle, error |-> e, cache |-> cache, heap |-> hp]

MissingEndpointAdmin ==
    "[nuxt-appwrite] Server: Missing endpoint or projectId. Set NUXT_PUBLIC_APPWRITE_ENDPOINT and NUXT_PUBLIC_APPWRITE_PROJECT_ID."
MissingApiKey ==
    "[nuxt-appwrite] Server: Missing API key. Set NUXT_APPWRITE_API_KEY to enable admin operations."
MissingEndpointJWT ==
    "[nuxt-appwrite] Server: Missing endpoint or projectId."

\* new Error(message)
PlainError(msg) ==
    [name |-> "Error", statusCode |-> 0, statusMessage |-> msg, cause |-> UNDEFINED]
\* createError({ statusCode, statusMessage })
createError(code, msg) ==
    [name |-> "H3Error", statusCode |-> code, statusMessage |-> msg,
     cause |-> UNDEFINED]

\* the construction testing the API key before the endpoint and project id
_createAdminClientKeyFirst(cfg, cache, hp) ==
    IF Falsy(cfg.apiKey)
    THEN Threw(PlainError(MissingApiKey), cache, hp)
    ELSE IF Falsy(cfg.endpoint) \/ Falsy(cfg.projectId)
    THEN Threw(PlainError(MissingEndpointAdmin), cache, hp)
    ELSE LET client == [NewClient EXCEPT !.endpoint = cfg.endpoint,
                                         !.project = cfg.projectId,
                                         !.key = cfg.apiKey]
             hp2 == Append(hp, client)
         IN  Returned([client |-> Len(hp2), services |-> AdminServices], cache, hp2)

_createAdminClient(cfg, cache, hp) ==
    IF Falsy(cfg.endpoint) \/ Falsy(cfg.projectId)
    THEN Threw(PlainError(MissingEndpointAdmin), cache, hp)
    ELSE IF Falsy(cfg.apiKey)
    THEN Threw(PlainError(MissingApiKey), cache, hp)
    ELSE LET client == [NewClient EXCEPT !.endpoint = cfg.endpoint,
                                         !.project = cfg.projectId,
                                         !.key = cfg.apiKey]
             hp2 == Append(hp, client)
         IN  Returned([client |-> Len(hp2), services |-> AdminServices], cache, hp2)

\* the accessor filling the cache slot before the construction has succeeded
useAppwriteAdminCachesFailure(cfg, cache, hp) ==
    IF cache = NoBundle
    THEN LET made == _createAdminClient(cfg, cache, hp)
         IN  IF made.threw
             THEN Threw(made.error, [client |-> Len(hp) + 1,
                                     services |-> AdminServices],
                        Append(hp, NewClient))
             ELSE Returned(made.value, made.value, made.heap)
    ELSE Returned(cache, cache, hp)

\* the accessor without its cache test: builds on every call
useAppwriteAdminRebuild(cfg, cache, hp) ==
    LET made == _createAdminClient(cfg, cache, hp)
    IN  IF made.threw THEN made ELSE Returned(made.value, made.value, made.heap)

useAppwriteAdmin(cfg, cache, hp) ==
    IF cache = NoBundle
    THEN LET made == _createAdminClient(cfg, cache, hp)
         IN  IF made.threw THEN made
             ELSE Returned(made.value, made.value, made.heap)
    ELSE Returned(cache, cache, hp)

\* the accessor asking for the API key as the privileged one does
useAppwriteJWTNeedsKey(cfg, cache, hp) ==
    IF Falsy(cfg.endpoint) \/ Falsy(cfg.projectId)
    THEN Threw(PlainError(MissingEndpointJWT), cache, hp)
    ELSE IF Falsy(cfg.apiKey)
    THEN Threw(PlainError(MissingApiKey), cache, hp)
    ELSE LET client == [NewClient EXCEPT !.endpoint = cfg.endpoint,
                                         !.project = cfg.projectId]
             hp2 == Append(hp, client)
         IN  Returned([client |-> Len(hp2), services |-> JWTServices], cache, hp2)

\* the accessor handing out one shared client: the cached privileged one when
\* there is one, else the first client built
useAppwriteJWTShared(cfg, cache, hp) ==
    IF Falsy(cfg.endpoint) \/ Falsy(cfg.projectId)
    THEN Threw(PlainError(MissingEndpointJWT), cache, hp)
    ELSE IF hp # <<>>
    THEN Returned([client |-> 1, services |-> JWTServices], cache, hp)
    ELSE LET client == [NewClient EXCEPT !.endpoint = cfg.endpoint,
                                         !.project = cfg.projectId]
             hp2 == Append(hp, client)
         IN  Returned([client |-> Len(hp2), services |-> JWTServices], cache, hp2)

useAppwriteJWT(cfg, cache, hp) ==
    IF Falsy(cfg.endpoint) \/ Falsy(cfg.projectId)
    THEN Threw(PlainError(MissingEndpointJWT), cache, hp)
    ELSE LET client == [NewClient EXCEPT !.endpoint = cfg.endpoint,
                                         !.project = cfg.projectId]
             hp2 == Append(hp, client)
         IN  Returned([client |-> Len(hp2), services |-> JWTServices], cache, hp2)

-----------------------------------------------------------------------------
(* The request (H3Event): its headers under their lower-case names, and the  *)
(* cookies parseCookies finds in it                                          *)

\* Authorization header values, and what startsWith("Bearer ") and slice(7)
\* make of each. A header value reaches the handler without surrounding
\* whitespace (the HTTP parser strips it), so a bearer scheme with no token
\* arrives as "Bearer", which does not start with "Bearer ".
AuthValues == {"Bearer s1", "Bearer s2", "Bearer", "Basic s1"}

StartsWithBearer(h) == h \in {"Bearer s1", "Bearer s2"}

Slice7(h) ==
    CASE h = "Bearer s1" -> "s1"
      [] h = "Bearer s2" -> "s2"
      [] h = "Basic s1" -> "1"
      [] OTHER -> ""

ToLowerCase(name) == IF name = "Authorization" THEN "authorization" ELSE name

getHeader(event, name) ==
    IF ToLowerCase(name) \in DOMAIN event.headers
    THEN event.headers[ToLowerCase(name)]
    ELSE UNDEFINED

parseCookies(event) == event.cookies

\* cookies[name]
Lookup(cookies, name) == IF name \in DOMAIN cookies THEN cookies[name] ELSE UNDEFINED

\* the user id also taken from a cookie when the header is missing
UserIdHeaderOrCookie(event) ==
    Coalesce(getHeader(event, "x-appwrite-user-id"),
             Coalesce(Lookup(parseCookies(event), "a_user_id"), NULL))

\* User ID from explicit header
UserIdHeader(event) == Coalesce(getHeader(event, "x-appwrite-user-id"), NULL)

\* the bearer token, or null
BearerToken(event) ==
    LET authHeader == getHeader(event, "Authorization")
    IN  IF authHeader # UNDEFINED /\ StartsWithBearer(authHeader)
        THEN Slice7(authHeader) ELSE NULL

\* the cookie fallback: current name, then legacy name
SessionCookie(event, projectId) ==
    LET cookies == parseCookies(event)
    IN  Coalesce(Lookup(cookies, "a_session_" \o projectId),
                 Coalesce(Lookup(cookies, "a_session_" \o projectId \o "_legacy"),
                          NULL))

\* the session id with the explicit header tried before the Authorization header
SessionIdExplicitFirst(event, cfg) ==
    LET s1 == Coalesce(getHeader(event, "x-appwrite-session"), NULL)
        s2 == IF Falsy(s1) THEN BearerToken(event) ELSE s1
        s3 == IF Falsy(s2) /\ ~Falsy(cfg.projectId)
              THEN SessionCookie(event, cfg.projectId) ELSE s2
    IN  [sessionId |-> s3,
         read |-> {"x-appwrite-session"}
                    \cup (IF Falsy(s1) THEN {"Authorization"} ELSE {})
                    \cup (IF Falsy(s2) THEN {"cookies"} ELSE {})]

\* the session id, and the sources read to find it
SessionIdDiscovery(event, cfg) ==
    LET \* 1. Authorization header
        s1 == BearerToken(event)
        \* 2. Explicit session header
        s2 == IF Falsy(s1)
              THEN Coalesce(getHeader(event, "x-appwrite-session"), NULL)
              ELSE s1
        \* 3. Appwrite cookie fallback
        s3 == IF Falsy(s2) /\ ~Falsy(cfg.projectId)
              THEN SessionCookie(event, cfg.projectId) ELSE s2
    IN  [sessionId |-> s3,
         read |-> {"Authorization"}
                    \cup (IF Falsy(s1) THEN {"x-appwrite-session"} ELSE {})
                    \cup (IF Falsy(s2) THEN {"cookies"} ELSE {})]

_extractSessionCredentials(event, cfg) ==
    LET found == SessionIdDiscovery(event, cfg)
    IN  [sessionId |-> found.sessionId,
         userId |-> UserIdHeader(event),
         read |-> found.read \cup {"x-appwrite-user-id"}]

\* a function with the given (name, value) pairs, names distinct
FromPairs(pairs) ==
    [n \in {p[1] : p \in pairs} |-> (CHOOSE p \in pairs : p[1] = n)[2]]

\* one optional (name, value) pair per name: none, or one of the values
Optional(name, values) == {{}} \cup {{<<name, v>>} : v \in values}

Headers ==
    {FromPairs(a \cup s \cup u) :
        a \in Optional("authorization", {"Bearer s1", "Bearer", "Basic s1"}),
        s \in Optional("x-appwrite-session", {"", "s2"}),
        u \in Optional("x-appwrite-user-id", {"", "u1"})}

CookieJars ==
    {FromPairs(c \cup l \cup o) :
        c \in Optional("a_session_p1", {"", "s3"}),
        l \in Optional("a_session_p1_legacy", {"s4"}),
        o \in Optional("a_user_id", {"u2"})}

Events == [headers : Headers, cookies : CookieJars]

NoEvent == [headers |-> FromPairs({}), cookies |-> FromPairs({})]
NoCreds == [sessionId |-> NULL, userId |-> NULL, read |-> {}]

-----------------------------------------------------------------------------
(* The Appwrite backend behind the Users service, and the clock *)

UserIds == {"u1", "u2"}
SessionIds == {"s1", "s2"}

\* Models.User: the record users.get resolves to
UserRecord(u) == [id |-> u, labels |-> IF u = "u1" THEN <<"admin">> ELSE <<>>]
NoUser == [id |-> NULL, labels |-> <<>>]

\* Models.Session.expire is a string: a datetime, or text that is not one
DateTime(t) == [valid |-> TRUE, ms |-> t]
NotADate == [valid |-> FALSE, ms |-> 0]
ExpireValues == {DateTime(t) : t \in 1..(MaxTime - 1)} \cup {NotADate}

\* JavaScript numbers, NaN among them
Num(n) == [nan |-> FALSE, n |-> n]
NaN == [nan |-> TRUE, n |-> 0]

\* new Date(text).getTime()
DateGetTime(d) == IF d.valid THEN Num(d.ms) ELSE NaN

\* a < b on numbers: false whenever one side is NaN
Less(a, b) == ~a.nan /\ ~b.nan /\ a.n < b.n

\* every session belongs to one user: s1 to u1, s2 to u2
OwnerOf(sid) == IF sid = "s1" THEN "u1" ELSE "u2"
Session(sid, e) == [id |-> sid, userId |-> OwnerOf(sid), expire |-> e]

\* the backend's failures: the SDK's AppwriteException, or a network error
BackendErrors ==
    {[name |-> "AppwriteException", code |-> 500, message |-> "Server Error"],
     [name |-> "TypeError", code |-> 0, message |-> "fetch failed"]}
UserNotFound ==
    [name |-> "AppwriteException", code |-> 404,
     message |-> "User with the requested ID could not be found."]

\* users.listSessions({ userId }): the sessions of that user
SessionsOf(all, userId) == {s \in all : s.userId = userId}

-----------------------------------------------------------------------------
(* useAppwriteSession *)

NoError == [name |-> NULL, statusCode |-> 0, statusMessage |-> NULL, cause |-> UNDEFINED]
Pending == [kind |-> "pending", value |-> NoUser, error |-> NoError]
ReturnedUser(u) == [kind |-> "returned", value |-> u, error |-> NoError]
Rejected(e) == [kind |-> "threw", value |-> NoUser, error |-> e]

\* the call asking for the privileged accessor before it tests the credentials
SessionEnterAdminFirst(event, cfg, cache, hp) ==
    LET creds == _extractSessionCredentials(event, cfg)
        adm == useAppwriteAdmin(cfg, cache, hp)
    IN  IF adm.threw
        THEN [creds |-> creds, threw |-> TRUE, error |-> adm.error,
              admin |-> NoBundle, adminCalled |-> TRUE,
              cache |-> adm.cache, heap |-> adm.heap]
        ELSE IF Falsy(creds.sessionId) \/ Falsy(creds.userId)
        THEN [creds |-> creds, threw |-> TRUE,
              error |-> createError(401, "Authentication required"),
              admin |-> adm.value, adminCalled |-> TRUE,
              cache |-> adm.cache, heap |-> adm.heap]
        ELSE [creds |-> creds, threw |-> FALSE, error |-> adm.error,
              admin |-> adm.value, adminCalled |-> TRUE,
              cache |-> adm.cache, heap |-> adm.heap]

\* the call up to its first await: extraction, the credentials test, the
\* privileged accessor
SessionEnter(event, cfg, cache, hp) ==
    LET creds == _extractSessionCredentials(event, cfg)
    IN  IF Falsy(creds.sessionId) \/ Falsy(creds.userId)
        THEN [creds |-> creds, threw |-> TRUE,
              error |-> createError(401, "Authentication required"),
              admin |-> NoBundle, adminCalled |-> FALSE,
              cache |-> cache, heap |-> hp]
        ELSE LET adm == useAppwriteAdmin(cfg, cache, hp)
             IN  [creds |-> creds, threw |-> adm.threw, error |-> adm.error,
                  admin |-> adm.value, adminCalled |-> TRUE,
                  cache |-> adm.cache, heap |-> adm.heap]

\* the catch of users.get keeping the backend's error as the cause
OnUsersGetRejectedWithCause(err) ==
    [createError(401, "Invalid user") EXCEPT !.cause = err.message]

\* catch of users.get
OnUsersGetRejected(err) == createError(401, "Invalid user")

\* the check taking any listed session for the caller's, whatever its id
CheckSessionsAnyListed(listed, sessionId, t) ==
    IF listed = {}
    THEN "Session not found"
    ELSE LET validSession == CHOOSE s \in listed : TRUE
             expiry == DateGetTime(validSession.expire)
         IN  IF Less(expiry, Num(t)) THEN "Session expired" ELSE NULL

\* the body of the second try once the list is there: the message of the
\* Error it throws, or NULL when it throws none
CheckSessions(listed, sessionId, t) ==
    LET matching == {s \in listed : s.id = sessionId}
    IN  IF matching = {}
        THEN "Session not found"
        ELSE LET validSession == CHOOSE s \in matching : TRUE
                 expiry == DateGetTime(validSession.expire)
             IN  IF Less(expiry, Num(t)) THEN "Session expired" ELSE NULL

\* the second catch throwing on what it caught
OnSessionCheckRethrow(err) == PlainError(err)

\* catch of the second try
OnSessionCheckRejected(err) == createError(401, "Invalid or expired session")

\* the user returned without its labels
SessionResultNoLabels(user, listed) == [user EXCEPT !.labels = <<>>]

\* return user
SessionResult(user, listed) == user

Requests == {"r1", "r2"}

IdleReq ==
    [pc |-> "idle", event |-> NoEvent, creds |-> NoCreds, admin |-> NoBundle,
     adminCalled |-> FALSE, fetched |-> NoUser, listed |-> {}, listRaised |-> FALSE,
     checkedAt |-> 0, calls |-> <<>>, backendError |-> NULL, outcome |-> Pending]

-----------------------------------------------------------------------------
(* Direct calls of the accessors from server routes *)

NoCall == [op |-> NULL, threw |-> FALSE, error |-> NoError, value |-> NoBundle]

\* a route calls useAppwriteAdmin()
AdminCall ==
    LET got == useAppwriteAdmin(config, adminClient, heap)
    IN  /\ adminClient' = got.cache
        /\ heap' = got.heap
        /\ adminReturned' = IF got.threw THEN adminReturned
                            ELSE adminReturned \cup {got.value}
        /\ lastCall' = [op |-> "useAppwriteAdmin", threw |-> got.threw,
                        error |-> IF got.threw THEN got.error ELSE NoError,
                        value |-> got.value]
        /\ UNCHANGED <<setupVars, clientVars, config, jwtReturned, users, sessions, now, req, xEvent, xCreds>>

\* a route calls useAppwriteJWT()
JWTCall ==
    /\ Len(jwtReturned) < MaxJWT
    /\ LET got == useAppwriteJWT(config, adminClient, heap)
       IN  /\ adminClient' = got.cache
           /\ heap' = got.heap
           /\ jwtReturned' = IF got.threw THEN jwtReturned
                             ELSE Append(jwtReturned, got.value)
           /\ lastCall' = [op |-> "useAppwriteJWT", threw |-> got.threw,
                           error |-> IF got.threw THEN got.error ELSE NoError,
                           value |-> got.value]
    /\ UNCHANGED <<setupVars, clientVars, config, adminReturned, users, sessions, now, req, xEvent, xCreds>>

\* the token the caller of the i-th useAppwriteJWT call holds
TokenOf(i) == IF i = 1 THEN "jwt1" ELSE IF i = 2 THEN "jwt2" ELSE "jwt3"

\* the caller of the i-th call does client.setJWT(jwt) on the bundle it got
SetJWT(i) ==
    /\ i \in 1..Len(jwtReturned)
    /\ heap[jwtReturned[i].client].jwt # TokenOf(i)
    /\ heap' = [heap EXCEPT ![jwtReturned[i].client].jwt = TokenOf(i)]
    /\ UNCHANGED <<setupVars, clientVars, config, adminClient, adminReturned, jwtReturned, lastCall,
                   users, sessions, now, req, xEvent, xCreds>>

\* the runtime configuration is replaced (a new deployment environment)
ConfigChange(cfg) ==
    /\ cfg \in Configs
    /\ cfg # config
    /\ config' = cfg
    /\ UNCHANGED <<setupVars, clientVars, heap, adminClient, adminReturned, jwtReturned, lastCall,
                   users, sessions, now, req, xEvent, xCreds>>

-----------------------------------------------------------------------------
(* A useAppwriteSession call, step by step: it runs to its first await, then *)
(* resumes when users.get settles, then when users.listSessions settles      *)

\* a request arrives at a route that verifies the session
Receive(r, e) ==
    /\ req[r].pc = "idle"
    /\ req' = [req EXCEPT ![r] = [IdleReq EXCEPT !.pc = "received", !.event = e]]
    /\ UNCHANGED <<setupVars, clientVars, config, heap, adminClient, adminReturned, jwtReturned, lastCall,
                   users, sessions, now, xEvent, xCreds>>

Enter(r) ==
    /\ req[r].pc = "received"
    /\ LET got == SessionEnter(req[r].event, config, adminClient, heap)
       IN  /\ adminClient' = got.cache
           /\ heap' = got.heap
           /\ adminReturned' = IF got.adminCalled /\ ~got.threw
                               THEN adminReturned \cup {got.admin}
                               ELSE adminReturned
           /\ req' = [req EXCEPT ![r] =
                        [@ EXCEPT !.pc = IF got.threw THEN "done" ELSE "getUser",
                                  !.event = NoEvent,
                                  !.creds = got.creds,
                                  !.admin = got.admin,
                                  !.adminCalled = got.adminCalled,
                                  !.outcome = IF got.threw THEN Rejected(got.error)
                                              ELSE Pending]]
    /\ UNCHANGED <<setupVars, clientVars, config, jwtReturned, lastCall, users, sessions, now, xEvent, xCreds>>

\* users.get({ userId }) resolves: the user exists
UsersGetResolves(r) ==
    /\ req[r].pc = "getUser"
    /\ req[r].creds.userId \in users
    /\ req' = [req EXCEPT ![r] =
                 [@ EXCEPT !.pc = "listSessions",
                           !.fetched = UserRecord(req[r].creds.userId),
                           !.calls = Append(@, "users.get")]]
    /\ UNCHANGED <<setupVars, clientVars, config, heap, adminClient, adminReturned, jwtReturned, lastCall,
                   users, sessions, now, xEvent, xCreds>>

\* users.get({ userId }) rejects: no such user, or the call failed
UsersGetRejects(r, err) ==
    /\ req[r].pc = "getUser"
    /\ \/ err \in BackendErrors
       \/ err = UserNotFound /\ req[r].creds.userId \notin users
    /\ req' = [req EXCEPT ![r] =
                 [@ EXCEPT !.pc = "done",
                           !.calls = Append(@, "users.get"),
                           !.backendError = err.message,
                           !.outcome = Rejected(OnUsersGetRejected(err))]]
    /\ UNCHANGED <<setupVars, clientVars, config, heap, adminClient, adminReturned, jwtReturned, lastCall,
                   users, sessions, now, xEvent, xCreds>>

\* users.listSessions({ userId }) resolves and the rest of the call runs
ListSessionsResolves(r) ==
    /\ req[r].pc = "listSessions"
    /\ LET listed == SessionsOf(sessions, req[r].creds.userId)
           thrown == CheckSessions(listed, req[r].creds.sessionId, now)
       IN  req' = [req EXCEPT ![r] =
                     [@ EXCEPT !.pc = "done",
                               !.listed = listed,
                               !.checkedAt = now,
                               !.calls = Append(@, "users.listSessions"),
                               !.outcome =
                                   IF thrown # NULL
                                   THEN Rejected(OnSessionCheckRejected(thrown))
                                   ELSE ReturnedUser(SessionResult(req[r].fetched, listed))]]
    /\ UNCHANGED <<setupVars, clientVars, config, heap, adminClient, adminReturned, jwtReturned, lastCall,
                   users, sessions, now, xEvent, xCreds>>

\* users.listSessions({ userId }) rejects
ListSessionsRejects(r, err) ==
    /\ req[r].pc = "listSessions"
    /\ err \in BackendErrors
    /\ req' = [req EXCEPT ![r] =
                 [@ EXCEPT !.pc = "done",
                           !.listRaised = TRUE,
                           !.checkedAt = now,
                           !.calls = Append(@, "users.listSessions"),
                           !.backendError = err.message,
                           !.outcome = Rejected(OnSessionCheckRejected(err.message))]]
    /\ UNCHANGED <<setupVars, clientVars, config, heap, adminClient, adminReturned, jwtReturned, lastCall,
                   users, sessions, now, xEvent, xCreds>>

\* the route is done with the outcome
Complete(r) ==
    /\ req[r].pc = "done"
    /\ req' = [req EXCEPT ![r] = IdleReq]
    /\ UNCHANGED <<setupVars, clientVars, config, heap, adminClient, adminReturned, jwtReturned, lastCall,
                   users, sessions, now, xEvent, xCreds>>

-----------------------------------------------------------------------------
(* The backend and the clock move on their own *)

Tick ==
    /\ now < MaxTime
    /\ now' = now + 1
    /\ UNCHANGED <<setupVars, clientVars, config, heap, adminClient, adminReturned, jwtReturned, lastCall,
                   users, sessions, req, xEvent, xCreds>>

\* a session is deleted (logout)
DeleteSession(s) ==
    /\ s \in sessions
    /\ sessions' = sessions \ {s}
    /\ UNCHANGED <<setupVars, clientVars, config, heap, adminClient, adminReturned, jwtReturned, lastCall,
                   users, now, req, xEvent, xCreds>>

\* a user is deleted, and the user's sessions with it
DeleteUser(u) ==
    /\ u \in users
    /\ users' = users \ {u}
    /\ sessions' = {s \in sessions : s.userId # u}
    /\ UNCHANGED <<setupVars, clientVars, config, heap, adminClient, adminReturned, jwtReturned, lastCall,
                   now, req, xEvent, xCreds>>

-----------------------------------------------------------------------------
(* The browser plugin: one Client for the page, configured from the public *)
(* configuration when the plugin runs                                      *)

NoPublicConfig == [endpoint |-> "", projectId |-> "", databaseId |-> ""]

MissingEndpointPlugin ==
    "[nuxt-appwrite] Missing endpoint or projectId in runtime config. Set NUXT_PUBLIC_APPWRITE_ENDPOINT and NUXT_PUBLIC_APPWRITE_PROJECT_ID env variables."

PluginServices == {"client", "account", "databases", "storage", "functions",
                   "messaging", "teams", "realtime", "avatars"}

\* the module-level client and services, before the plugin function runs
PluginLoaded == [client |-> NewClient, services |-> PluginServices,
                 warned |-> <<>>, provided |-> FALSE]

\* defineNuxtPlugin(() => ...): configures the client or warns, then provides
PluginRun(pl, pub) ==
    IF ~Falsy(pub.endpoint) /\ ~Falsy(pub.projectId)
    THEN [pl EXCEPT !.client = [@ EXCEPT !.endpoint = pub.endpoint,
                                         !.project = pub.projectId],
                    !.provided = TRUE]
    ELSE [pl EXCEPT !.warned = Append(@, MissingEndpointPlugin),
                    !.provided = TRUE]

-----------------------------------------------------------------------------
(* Module setup (module.ts): the inline options and the environment are    *)
(* resolved, key by key, and merged into the configuration store           *)

\* the values of the store: a string, null or undefined, a plain object
Str(s) == [t |-> "string", s |-> s]
Nullish == [t |-> "nullish"]
Obj(o) == [t |-> "object", o |-> o]
EmptyObject == [k \in {} |-> Nullish]

PublicKeys == {"endpoint", "projectId", "databaseId", "storageBucketId",
               "adminTeamId"}
PrivateKeys == {"apiKey"}
ModuleKeys == PublicKeys \cup PrivateKeys

EnvName(k) ==
    CASE k = "endpoint" -> "NUXT_PUBLIC_APPWRITE_ENDPOINT"
      [] k = "projectId" -> "NUXT_PUBLIC_APPWRITE_PROJECT_ID"
      [] k = "databaseId" -> "NUXT_PUBLIC_APPWRITE_DATABASE_ID"
      [] k = "storageBucketId" -> "NUXT_PUBLIC_APPWRITE_STORAGE_BUCKET_ID"
      [] k = "adminTeamId" -> "NUXT_PUBLIC_APPWRITE_ADMIN_TEAM_ID"
      [] k = "apiKey" -> "NUXT_APPWRITE_API_KEY"

\* process.env[name]
EnvGet(env, name) == IF name \in DOMAIN env THEN env[name] ELSE UNDEFINED

\* x || y
Or(x, y) == IF Falsy(x) THEN y ELSE x

\* the resolution with the environment variable consulted first
ResolveEnvFirst(options, env, k) ==
    Or(Or(EnvGet(env, EnvName(k)), options[k]), "")

\* options.k || process.env.K || ""
Resolve(options, env, k) ==
    Or(Or(options[k], EnvGet(env, EnvName(k))), "")

\* Object.assign({}, baseObject, defaults): the defaults overwrite
_defuOverwrite(baseObject, defaults) ==
    [key \in DOMAIN baseObject \cup DOMAIN defaults |->
        IF key \in DOMAIN defaults THEN defaults[key] ELSE baseObject[key]]

\* defu's merge of two plain objects: a key of baseObject whose value is not
\* null or undefined wins, plain objects under the same key are merged, and
\* the defaults fill in the rest
RECURSIVE _defu(_, _)
_defu(baseObject, defaults) ==
    [key \in DOMAIN defaults \cup
             {k \in DOMAIN baseObject : baseObject[k].t # "nullish"} |->
        IF key \notin DOMAIN baseObject \/ baseObject[key].t = "nullish"
        THEN defaults[key]
        ELSE IF /\ key \in DOMAIN defaults
                /\ baseObject[key].t = "object"
                /\ defaults[key].t = "object"
        THEN Obj(_defu(baseObject[key].o, defaults[key].o))
        ELSE baseObject[key]]

\* defu(object, defaults): the arguments are folded from the left into {}
defu(object, defaults) == _defu(_defu(EmptyObject, object), defaults)

\* setup with the API key put next to the public values as well
setupKeyInPublic(options, env, runtimeConfig) ==
    LET pub == defu(runtimeConfig["public"].o,
                    [appwrite |-> Obj([k \in ModuleKeys |->
                                          Str(Resolve(options, env, k))])])
        withPublic == [runtimeConfig EXCEPT !["public"] = Obj(pub)]
    IN  defu(withPublic,
             [appwrite |-> Obj([k \in PrivateKeys |->
                                   Str(Resolve(options, env, k))])])

\* setup(options, nuxt): the value of nuxt.options.runtimeConfig it leaves
setup(options, env, runtimeConfig) ==
    LET pub == defu(runtimeConfig["public"].o,
                    [appwrite |-> Obj([k \in PublicKeys |->
                                          Str(Resolve(options, env, k))])])
        withPublic == [runtimeConfig EXCEPT !["public"] = Obj(pub)]
    IN  defu(withPublic,
             [appwrite |-> Obj([k \in PrivateKeys |->
                                   Str(Resolve(options, env, k))])])

\* the values a deployment gives a key: inline, in the environment, or
\* already in the store
OptValue(k) == "opt:" \o k
EnvValue(k) == "env:" \o k
PreValue(k) == "pre:" \o k

\* how the keys other than the one under study are configured
Profiles == {"unset", "inline", "env", "preset"}

KeyOf(name) == CHOOSE k \in ModuleKeys : EnvName(k) = name

\* a deployment: key k has its inline option empty or set (oc), its
\* environment variable unset, empty or set (ec) and its place in the store
\* absent, null, empty or set (pc); the other keys follow the profile; the
\* store has, or has not, keys of other modules (extra)
Deployment(k, oc, ec, pc, prof, extra) ==
    LET opt(j) == IF j = k THEN oc = "set" ELSE prof \in {"inline", "preset"}
        envSet(j) == IF j = k THEN ec # "unset" ELSE prof \in {"inline", "env"}
        envVal(j) == IF j = k /\ ec = "empty" THEN "" ELSE EnvValue(j)
        preSet(j) == IF j = k THEN pc # "absent" ELSE prof = "preset"
        preVal(j) == IF j # k \/ pc = "set" THEN Str(PreValue(j))
                     ELSE IF pc = "empty" THEN Str("") ELSE Nullish
        pubNs == [j \in {i \in PublicKeys : preSet(i)} |-> preVal(j)]
        privNs == [j \in {i \in PrivateKeys : preSet(i)} |-> preVal(j)]
        pubObj ==
            (IF extra THEN "siteUrl" :> Str("https://example.org") ELSE EmptyObject)
            @@ (IF extra \/ DOMAIN pubNs # {}
                THEN "appwrite" :> Obj(pubNs @@
                        (IF extra THEN "locale" :> Str("en") ELSE EmptyObject))
                ELSE EmptyObject)
        store ==
            ("public" :> Obj(pubObj))
            @@ (IF extra THEN "sessionSecret" :> Str("hush") ELSE EmptyObject)
            @@ (IF DOMAIN privNs # {} THEN "appwrite" :> Obj(privNs) ELSE EmptyObject)
    IN  [options |-> [j \in ModuleKeys |-> IF opt(j) THEN OptValue(j) ELSE ""],
         env |-> [n \in {EnvName(j) : j \in {i \in ModuleKeys : envSet(i)}} |->
                     envVal(KeyOf(n))],
         store |-> store]

Deployments ==
    {Deployment(k, oc, ec, pc, prof, extra) :
        k \in ModuleKeys, oc \in {"empty", "set"},
        ec \in {"unset", "empty", "set"},
        pc \in {"absent", "nullish", "empty", "set"},
        prof \in Profiles, extra \in BOOLEAN}

\* the text of a string value of the store
Text(v) == IF v.t = "string" THEN v.s ELSE UNDEFINED

\* config.public.appwrite, as the plugin and the composable destructure it
PublicConfig(runtimeConfig) ==
    LET appwrite == runtimeConfig["public"].o["appwrite"].o
    IN  [endpoint |-> Text(appwrite["endpoint"]),
         projectId |-> Text(appwrite["projectId"]),
         databaseId |-> Text(appwrite["databaseId"])]

\* const config = useRuntimeConfig(), as the server utilities destructure it
ServerConfig(runtimeConfig) ==
    [endpoint |-> Text(runtimeConfig["public"].o["appwrite"].o["endpoint"]),
     projectId |-> Text(runtimeConfig["public"].o["appwrite"].o["projectId"]),
     apiKey |-> Text(runtimeConfig["appwrite"].o["apiKey"])]

ModuleDefaults == [k \in ModuleKeys |-> ""]
NoStore == "public" :> Obj(EmptyObject)

SetupIdle ==
    /\ sOptions = ModuleDefaults
    /\ sEnv = EmptyObject
    /\ sBefore = NoStore
    /\ sStore = NoStore
    /\ sPhase = "idle"

\* the module's setup hook runs, once, when the application is built
Setup ==
    /\ sPhase = "configured"
    /\ sStore' = setup(sOptions, sEnv, sStore)
    /\ sPhase' = "set up"
    /\ UNCHANGED <<sOptions, sEnv, sBefore, clientVars,
                   config, heap, adminClient, adminReturned, jwtReturned,
                   lastCall, users, sessions, now, req, xEvent, xCreds>>

\* the server starts with the store as its runtime configuration
ServerStart ==
    /\ sPhase = "set up"
    /\ config' = ServerConfig(sStore)
    /\ sPhase' = "serving"
    /\ UNCHANGED <<sOptions, sEnv, sBefore, sStore, clientVars,
                   heap, adminClient, adminReturned, jwtReturned,
                   lastCall, users, sessions, now, req, xEvent, xCreds>>

\* a page loads in the browser: the plugin runs on the public configuration
PluginStart ==
    /\ sPhase \in {"set up", "serving"}
    /\ ~plugin.provided
    /\ cConfig' = PublicConfig(sStore)
    /\ plugin' = PluginRun(plugin, PublicConfig(sStore))
    /\ UNCHANGED <<setupVars, hr, dbCall, ua,
                   config, heap, adminClient, adminReturned, jwtReturned,
                   lastCall, users, sessions, now, req, xEvent, xCreds>>

-----------------------------------------------------------------------------
(* The useAppwrite composable: the helpers query, getDocument and hasRole  *)
(* over the services the plugin provides                                   *)

MaxMemberships == 2

DatabaseIds == {"", "db1"}
OverrideIds == {UNDEFINED, "", "db2"}
CollectionIds == {"posts", "users"}
DocumentIds == {"d1", "d2"}
QueryLists == {<<>>, <<"equal(status,active)">>, <<"limit(5)", "offset(5)">>}
TeamIds == {"", "t1"}
Roles == {"owner", "member"}

\* the first argument both helpers pass: databaseId ?? config default
DatabaseIdCoalesce(databaseId, appwriteConfig) ==
    Coalesce(databaseId, appwriteConfig.databaseId)

\* databaseId || appwriteConfig.databaseId
DatabaseId(databaseId, appwriteConfig) ==
    Or(databaseId, appwriteConfig.databaseId)

\* a parameter with the default []: the default applies when it is omitted
QueriesParam(omitted, queries) == IF omitted THEN <<>> ELSE queries

\* the call query(collectionId, queries, databaseId) makes on the SDK
query(appwriteConfig, collectionId, omitted, queries, databaseId) ==
    [method |-> "databases.listDocuments",
     databaseId |-> DatabaseId(databaseId, appwriteConfig),
     collectionId |-> collectionId,
     documentId |-> UNDEFINED,
     queries |-> QueriesParam(omitted, queries)]

\* the call getDocument(collectionId, documentId, queries, databaseId) makes
getDocument(appwriteConfig, collectionId, documentId, omitted, queries, databaseId) ==
    [method |-> "databases.getDocument",
     databaseId |-> DatabaseId(databaseId, appwriteConfig),
     collectionId |-> collectionId,
     documentId |-> documentId,
     queries |-> QueriesParam(omitted, queries)]

\* what the database service answers: a result, or a rejection
DbResults == {[total |-> 0, documents |-> <<>>],
              [total |-> 2, documents |-> <<"d1", "d2">>]}
DbErrors == {[name |-> "AppwriteException", code |-> 404],
             [name |-> "AppwriteException", code |-> 401]}
NoDbResult == [total |-> 0 - 1, documents |-> <<>>]
NoDbError == [name |-> "", code |-> 0]

NoArguments == [collectionId |-> "", documentId |-> UNDEFINED, omitted |-> TRUE,
                queries |-> <<>>, databaseId |-> UNDEFINED]
NothingSent == [method |-> "", databaseId |-> "", collectionId |-> "",
                documentId |-> UNDEFINED, queries |-> <<>>]

NoDbCall == [pc |-> "idle", helper |-> "", given |-> NoArguments,
             sent |-> NothingSent, answer |-> NoDbResult,
             threw |-> FALSE, value |-> NoDbResult, error |-> NoDbError]

\* await of a resolved promise returns its value
DbReturn(call, result) ==
    [call EXCEPT !.pc = "done", !.answer = result, !.value = result]

\* a membership of a team, as teams.listMemberships lists it
Memberships == [userId : UserIds, confirm : BOOLEAN,
                roles : {<<>>, <<"member">>, <<"owner">>}]

RECURSIVE SeqsUpTo(_, _)
SeqsUpTo(S, n) ==
    IF n = 0 THEN {<<>>}
    ELSE LET shorter == SeqsUpTo(S, n - 1)
         IN  shorter \cup {Append(q, x) : q \in shorter, x \in S}

MembershipLists == SeqsUpTo(Memberships, MaxMemberships)

\* array.includes(x)
Includes(array, x) == \E i \in 1..Len(array) : array[i] = x

\* the helper with find looking at the user only, confirmed or not
hasRoleResultUnconfirmed(memberships, currentUser, role) ==
    LET found == {i \in 1..Len(memberships) :
                     memberships[i].userId = currentUser}
    IN  IF found = {} THEN FALSE
        ELSE Includes(memberships[CHOOSE i \in found :
                                     \A j \in found : i <= j].roles, role)

\* memberships.find(m => m.userId === currentUser.$id && m.confirm), then
\* membership?.roles?.includes(role) || false
hasRoleResult(memberships, currentUser, role) ==
    LET found == {i \in 1..Len(memberships) :
                     /\ memberships[i].userId = currentUser
                     /\ memberships[i].confirm}
    IN  IF found = {} THEN FALSE
        ELSE Includes(memberships[CHOOSE i \in found :
                                     \A j \in found : i <= j].roles, role)

IdleRole == [pc |-> "idle", server |-> FALSE, teamId |-> "", role |-> "",
             memberships |-> <<>>, currentUser |-> NULL, calls |-> <<>>,
             threw |-> FALSE, value |-> FALSE]

\* hasRole up to its first await
hasRoleEnter(server, teamId, role) ==
    IF server
    THEN [IdleRole EXCEPT !.pc = "done", !.server = server, !.teamId = teamId,
                          !.role = role, !.value = FALSE]
    ELSE [IdleRole EXCEPT !.pc = "listMemberships", !.server = server,
                          !.teamId = teamId, !.role = role,
                          !.calls = <<<<"teams.listMemberships", teamId>>>>]

\* no page loaded, no call made
NoUse == [loaded |-> FALSE, log |-> <<>>]

ClientIdle ==
    /\ cConfig = NoPublicConfig
    /\ plugin = PluginLoaded
    /\ hr = IdleRole
    /\ dbCall = NoDbCall
    /\ ua = NoUse

\* a component calls query(collectionId, queries, databaseId)
QueryCall(collectionId, omitted, queries, databaseId) ==
    /\ dbCall.pc \in {"idle", "done"}
    /\ omitted => queries = <<>>
    /\ dbCall' = [NoDbCall EXCEPT
                    !.pc = "awaiting", !.helper = "query",
                    !.given = [collectionId |-> collectionId,
                               documentId |-> UNDEFINED,
                               omitted |-> omitted, queries |-> queries,
                               databaseId |-> databaseId],
                    !.sent = query(cConfig, collectionId, omitted, queries,
                                   databaseId)]
    /\ UNCHANGED <<setupVars, cConfig, plugin, hr, ua,
                   config, heap, adminClient, adminReturned, jwtReturned,
                   lastCall, users, sessions, now, req, xEvent, xCreds>>

\* a component calls getDocument(collectionId, documentId, queries, databaseId)
GetDocumentCall(collectionId, documentId, omitted, queries, databaseId) ==
    /\ dbCall.pc \in {"idle", "done"}
    /\ omitted => queries = <<>>
    /\ dbCall' = [NoDbCall EXCEPT
                    !.pc = "awaiting", !.helper = "getDocument",
                    !.given = [collectionId |-> collectionId,
                               documentId |-> documentId,
                               omitted |-> omitted, queries |-> queries,
                               databaseId |-> databaseId],
                    !.sent = getDocument(cConfig, collectionId, documentId,
                                         omitted, queries, databaseId)]
    /\ UNCHANGED <<setupVars, cConfig, plugin, hr, ua,
                   config, heap, adminClient, adminReturned, jwtReturned,
                   lastCall, users, sessions, now, req, xEvent, xCreds>>

\* the database service answers and the helper returns
DatabaseResolves(result) ==
    /\ dbCall.pc = "awaiting"
    /\ dbCall' = DbReturn(dbCall, result)
    /\ UNCHANGED <<setupVars, cConfig, plugin, hr, ua,
                   config, heap, adminClient, adminReturned, jwtReturned,
                   lastCall, users, sessions, now, req, xEvent, xCreds>>

\* the database service rejects and so does the helper
DatabaseRejects(err) ==
    /\ dbCall.pc = "awaiting"
    /\ dbCall' = [dbCall EXCEPT !.pc = "done", !.threw = TRUE, !.error = err]
    /\ UNCHANGED <<setupVars, cConfig, plugin, hr, ua,
                   config, heap, adminClient, adminReturned, jwtReturned,
                   lastCall, users, sessions, now, req, xEvent, xCreds>>

\* hasRole(teamId, role) is called, on the server or in the browser
HasRoleCall(server, teamId, role) ==
    /\ hr.pc \in {"idle", "done"}
    /\ hr' = hasRoleEnter(server, teamId, role)
    /\ UNCHANGED <<setupVars, cConfig, plugin, dbCall, ua,
                   config, heap, adminClient, adminReturned, jwtReturned,
                   lastCall, users, sessions, now, req, xEvent, xCreds>>

\* teams.listMemberships resolves: hasRole goes on to account.get
ListMembershipsResolves(list) ==
    /\ hr.pc = "listMemberships"
    /\ hr' = [hr EXCEPT !.pc = "account.get", !.memberships = list,
                        !.calls = Append(@, <<"account.get">>)]
    /\ UNCHANGED <<setupVars, cConfig, plugin, dbCall, ua,
                   config, heap, adminClient, adminReturned, jwtReturned,
                   lastCall, users, sessions, now, req, xEvent, xCreds>>

\* account.get resolves: hasRole looks for the membership and returns
AccountGetResolves(u) ==
    /\ hr.pc = "account.get"
    /\ hr' = [hr EXCEPT !.pc = "done", !.currentUser = u,
                        !.value = hasRoleResult(hr.memberships, u, hr.role)]
    /\ UNCHANGED <<setupVars, cConfig, plugin, dbCall, ua,
                   config, heap, adminClient, adminReturned, jwtReturned,
                   lastCall, users, sessions, now, req, xEvent, xCreds>>

\* hasRole without its try block: the rejection leaves it
hasRoleRethrow(call) == [call EXCEPT !.pc = "done", !.threw = TRUE]

\* what the catch block of hasRole does with a rejection
hasRoleCatch(call) == [call EXCEPT !.pc = "done", !.value = FALSE]

\* either lookup rejects: the catch block returns false
LookupRejects ==
    /\ hr.pc \in {"listMemberships", "account.get"}
    /\ hr' = hasRoleCatch(hr)
    /\ UNCHANGED <<setupVars, cConfig, plugin, dbCall, ua,
                   config, heap, adminClient, adminReturned, jwtReturned,
                   lastCall, users, sessions, now, req, xEvent, xCreds>>

-----------------------------------------------------------------------------
(* useAppwrite itself: it takes $appwrite from the application instance and *)
(* hands its service handles on; the plugin that provides $appwrite is      *)
(* registered for the browser only                                          *)

MaxUse == 3

\* the one Client the plugin module constructs when it is loaded
PluginClientId == 1

\* the service objects constructed on client id: a handle is its class and
\* the client it was constructed on
Handles(id) == [h \in PluginServices |-> <<h, id>>]

NoHandles == [h \in PluginServices |-> <<h, 0>>]
NoValue == [services |-> NoHandles, db |-> <<"databases", 0>>,
            auth |-> <<"account", 0>>, DATABASE_ID |-> UNDEFINED,
            ENDPOINT |-> UNDEFINED, PROJECT_ID |-> UNDEFINED]

\* reading a property of undefined
TypeErrorUndefined == [name |-> "TypeError",
                       message |-> "Cannot read properties of undefined (reading 'client')"]
NoTypeError == [name |-> "", message |-> ""]

\* useNuxtApp().$appwrite: what the plugin provided to this application
\* instance; the plugin does not run in an instance on the server
NuxtApp(pl, server) ==
    IF ~server /\ pl.provided
    THEN [provided |-> TRUE, appwrite |-> Handles(PluginClientId)]
    ELSE [provided |-> FALSE, appwrite |-> NoHandles]

\* useAppwrite constructing a client and services of its own, the n-th call
\* the n-th after the plugin's
useAppwriteOwnClient(nuxtApp, appwriteConfig, n) ==
    IF ~nuxtApp.provided
    THEN [threw |-> TRUE, error |-> TypeErrorUndefined, value |-> NoValue]
    ELSE [threw |-> FALSE, error |-> NoTypeError,
          value |-> [services |-> Handles(PluginClientId + n),
                     db |-> <<"databases", PluginClientId + n>>,
                     auth |-> <<"account", PluginClientId + n>>,
                     DATABASE_ID |-> appwriteConfig.databaseId,
                     ENDPOINT |-> appwriteConfig.endpoint,
                     PROJECT_ID |-> appwriteConfig.projectId]]

\* useAppwrite(), the n-th call: the handles of $appwrite, the two aliases
\* and the configuration constants
useAppwrite(nuxtApp, appwriteConfig, n) ==
    IF ~nuxtApp.provided
    THEN [threw |-> TRUE, error |-> TypeErrorUndefined, value |-> NoValue]
    ELSE [threw |-> FALSE, error |-> NoTypeError,
          value |-> [services |-> nuxtApp.appwrite,
                     db |-> nuxtApp.appwrite["databases"],
                     auth |-> nuxtApp.appwrite["account"],
                     DATABASE_ID |-> appwriteConfig.databaseId,
                     ENDPOINT |-> appwriteConfig.endpoint,
                     PROJECT_ID |-> appwriteConfig.projectId]]

\* the page loads in the browser: the plugin runs before any component
PageLoad ==
    /\ ~ua.loaded
    /\ plugin' = PluginRun(plugin, cConfig)
    /\ ua' = [ua EXCEPT !.loaded = TRUE]
    /\ UNCHANGED <<setupVars, cConfig, hr, dbCall,
                   config, heap, adminClient, adminReturned, jwtReturned,
                   lastCall, users, sessions, now, req, xEvent, xCreds>>

\* a component calls useAppwrite(): while the server renders the page, or in
\* the browser once the page has loaded
UseAppwriteCall(server) ==
    /\ Len(ua.log) < MaxUse
    /\ ~server => ua.loaded
    /\ LET got == useAppwrite(NuxtApp(plugin, server), cConfig, Len(ua.log) + 1)
       IN  ua' = [ua EXCEPT !.log = Append(@, [server |-> server,
                                                threw |-> got.threw,
                                                error |-> got.error,
                                                value |-> got.value])]
    /\ UNCHANGED <<setupVars, cConfig, plugin, hr, dbCall,
                   config, heap, adminClient, adminReturned, jwtReturned,
                   lastCall, users, sessions, now, req, xEvent, xCreds>>

-----------------------------------------------------------------------------
(* The server process: routes call the accessors, set tokens on the bundles  *)
(* they got and verify sessions, two requests at a time; the configuration   *)
(* may be replaced between calls                                             *)

\* the requests the routes of this specification see
RouteEvents ==
    {[headers |-> FromPairs(a \cup u), cookies |-> FromPairs({})] :
        a \in {{<<"authorization", "Bearer s1">>}},
        u \in Optional("x-appwrite-user-id", {"u1"})}

InitBase ==
    /\ heap = <<>>
    /\ adminClient = NoBundle
    /\ adminReturned = {}
    /\ jwtReturned = <<>>
    /\ lastCall = NoCall
    /\ users = UserIds
    /\ now = 0
    /\ req = [r \in Requests |-> IdleReq]
    /\ xEvent = NoEvent
    /\ xCreds = NoCreds

Init ==
    /\ InitBase
    /\ SetupIdle
    /\ ClientIdle
    /\ config \in Configs
    /\ sessions = {Session(sid, DateTime(MaxTime)) : sid \in SessionIds}

Next ==
    \/ AdminCall
    \/ JWTCall
    \/ \E i \in 1..MaxJWT : SetJWT(i)
    \/ \E cfg \in Configs : ConfigChange(cfg)
    \/ \E r \in Requests, e \in RouteEvents : Receive(r, e)
    \/ \E r \in Requests : Enter(r)
    \/ \E r \in Requests : UsersGetResolves(r)
    \/ \E r \in Requests, err \in BackendErrors \cup {UserNotFound} : UsersGetRejects(r, err)
    \/ \E r \in Requests : ListSessionsResolves(r)
    \/ \E r \in Requests, err \in BackendErrors : ListSessionsRejects(r, err)
    \/ \E r \in Requests : Complete(r)

Spec == Init /\ [][Next]_vars

-----------------------------------------------------------------------------
(* Session verification against a backend that changes under it: one request *)
(* at a time, sessions that expire, are deleted or carry an expire text that *)
(* is no date, users that are deleted, and a clock                           *)

\* the requests: a bearer session id or none, an empty x-appwrite-session
\* header or none, a user id header or none, a cookie naming a user or none
SessionEvents ==
    {[headers |-> FromPairs(a \cup x \cup u), cookies |-> FromPairs(c)] :
        a \in Optional("authorization", {"Bearer s1", "Bearer s2"}),
        x \in Optional("x-appwrite-session", {""}),
        u \in Optional("x-appwrite-user-id", {"", "u1", "u2"}),
        c \in Optional("a_user_id", {"u2"})}

InitSession ==
    /\ InitBase
    /\ SetupIdle
    /\ ClientIdle
    /\ config \in Configs
    /\ \E e1 \in ExpireValues, e2 \in ExpireValues :
          sessions = {Session("s1", e1), Session("s2", e2)}

NextSession ==
    \/ AdminCall
    \/ \E cfg \in Configs : ConfigChange(cfg)
    \/ \E e \in SessionEvents : Receive("r1", e)
    \/ Enter("r1")
    \/ UsersGetResolves("r1")
    \/ \E err \in BackendErrors \cup {UserNotFound} : UsersGetRejects("r1", err)
    \/ ListSessionsResolves("r1")
    \/ \E err \in BackendErrors : ListSessionsRejects("r1", err)
    \/ Complete("r1")
    \/ Tick
    \/ \E s \in sessions : DeleteSession(s)
    \/ \E u \in UserIds : DeleteUser(u)

SpecSession == InitSession /\ [][NextSession]_vars

-----------------------------------------------------------------------------
(* Credential extraction on its own, over every request and configuration *)

Extract ==
    /\ xCreds = NoCreds
    /\ xCreds' = _extractSessionCredentials(xEvent, config)
    /\ UNCHANGED <<setupVars, clientVars, config, heap, adminClient, adminReturned, jwtReturned, lastCall,
                   users, sessions, now, req, xEvent>>

\* the next request comes in
NextRequest(e) ==
    /\ xCreds # NoCreds
    /\ xEvent' = e
    /\ xCreds' = NoCreds
    /\ UNCHANGED <<setupVars, clientVars, config, heap, adminClient, adminReturned, jwtReturned, lastCall,
                   users, sessions, now, req>>

InitExtract ==
    /\ InitBase
    /\ SetupIdle
    /\ ClientIdle
    /\ config \in Configs
    /\ sessions = {}

NextExtract ==
    \/ Extract
    \/ \E e \in Events : NextRequest(e)

SpecExtract == InitExtract /\ [][NextExtract]_vars

-----------------------------------------------------------------------------
(* The application from build to service: setup fills the store from one   *)
(* deployment, the server and the browser read it, routes call the         *)
(* accessors                                                               *)

Unconfigured == [endpoint |-> "", projectId |-> "", apiKey |-> ""]

ServeAdmin == sPhase = "serving" /\ AdminCall
ServeJWT == sPhase = "serving" /\ JWTCall

InitSetup ==
    /\ InitBase
    /\ ClientIdle
    /\ config = Unconfigured
    /\ sessions = {}
    /\ \E d \in Deployments :
          /\ sOptions = d.options
          /\ sEnv = d.env
          /\ sBefore = d.store
          /\ sStore = d.store
    /\ sPhase = "configured"

NextSetup ==
    \/ Setup
    \/ ServerStart
    \/ PluginStart
    \/ ServeAdmin
    \/ ServeJWT

SpecSetup == InitSetup /\ [][NextSetup]_vars

-----------------------------------------------------------------------------
(* The composable in a page: the database helpers                          *)

ClientConfigs == {[endpoint |-> "https://cloud.appwrite.io/v1", projectId |-> "p1",
                   databaseId |-> d] : d \in DatabaseIds}

InitClient ==
    /\ InitBase
    /\ SetupIdle
    /\ config = Unconfigured
    /\ sessions = {}
    /\ cConfig \in ClientConfigs
    /\ plugin = PluginRun(PluginLoaded, cConfig)
    /\ hr = IdleRole
    /\ dbCall = NoDbCall
    /\ ua = NoUse

NextQuery ==
    \/ \E c \in CollectionIds, o \in BOOLEAN, q \in QueryLists, d \in OverrideIds :
          QueryCall(c, o, q, d)
    \/ \E c \in CollectionIds, i \in DocumentIds, o \in BOOLEAN, q \in QueryLists,
          d \in OverrideIds : GetDocumentCall(c, i, o, q, d)
    \/ \E result \in DbResults : DatabaseResolves(result)
    \/ \E err \in DbErrors : DatabaseRejects(err)

SpecQuery == InitClient /\ [][NextQuery]_vars

(* The composable on the server and in a page: hasRole                     *)

NextRole ==
    \/ \E server \in BOOLEAN, t \in TeamIds, role \in Roles : HasRoleCall(server, t, role)
    \/ \E list \in MembershipLists : ListMembershipsResolves(list)
    \/ \E u \in UserIds : AccountGetResolves(u)
    \/ LookupRejects

SpecRole == InitClient /\ [][NextRole]_vars

(* A page of the application: rendered on the server, loaded in the browser *)

PageConfigs == [endpoint : Endpoints, projectId : ProjectIds, databaseId : DatabaseIds]

InitPage ==
    /\ InitBase
    /\ SetupIdle
    /\ config = Unconfigured
    /\ sessions = {}
    /\ cConfig \in PageConfigs
    /\ plugin = PluginLoaded
    /\ hr = IdleRole
    /\ dbCall = NoDbCall
    /\ ua = NoUse

NextPage ==
    \/ PageLoad
    \/ \E server \in BOOLEAN : UseAppwriteCall(server)

SpecPage == InitPage /\ [][NextPage]_vars

-----------------------------------------------------------------------------
(* Properties of the accessors, under Spec *)

\* C1: every useAppwriteAdmin call that returns, direct or made by a session
\* verification, yields the one cached bundle: a step never replaces or clears
\* a cache slot that is set (whatever the configuration has become), so the
\* slot is written at most once, and every bundle handed out is the slot's.
C1_AdminSingleton ==
    [][ /\ adminClient # NoBundle => adminClient' = adminClient
        /\ Cardinality(adminReturned') <= 1
        /\ adminReturned' # {} => adminReturned' = {adminClient'}
        /\ \A r \in Requests : req'[r].admin \in {NoBundle, adminClient'}
        /\ lastCall'.op = "useAppwriteAdmin" /\ ~lastCall'.threw
              => lastCall'.value = adminClient' ]_vars

\* C1 witness: the cache was filled, the configuration has since lost the API
\* key it was built with, a later direct call still returned the cached
\* bundle, and both requests in flight hold it too.
C1_Witness ==
    /\ adminClient # NoBundle
    /\ config.apiKey # heap[adminClient.client].key
    /\ lastCall.op = "useAppwriteAdmin" /\ ~lastCall.threw
    /\ lastCall.value = adminClient
    /\ \A r \in Requests : req[r].pc = "getUser" /\ req[r].admin = adminClient
    /\ Len(heap) > 1

\* C2: the bundles useAppwriteJWT returned are pairwise distinct, with pairwise
\* distinct clients, none of them the privileged bundle's; so the token one
\* caller set is on that caller's client only: every other returned client,
\* and the privileged client, carries no token or its own caller's.
C2_JWTIsolated ==
    /\ \A i, j \in 1..Len(jwtReturned) :
          i # j => /\ jwtReturned[i] # jwtReturned[j]
                   /\ jwtReturned[i].client # jwtReturned[j].client
    /\ \A i \in 1..Len(jwtReturned) :
          /\ jwtReturned[i].client \in 1..Len(heap)
          /\ jwtReturned[i] # adminClient
          /\ jwtReturned[i].client # adminClient.client
          /\ \A b \in adminReturned : jwtReturned[i].client # b.client
          /\ heap[jwtReturned[i].client].jwt \in {UNDEFINED, TokenOf(i)}
          /\ heap[jwtReturned[i].client].key = UNDEFINED
    /\ adminClient # NoBundle => heap[adminClient.client].jwt = UNDEFINED

\* C2 witness: two calls returned, around the construction of the privileged
\* bundle, and each caller has set its token.
C2_Witness ==
    /\ Len(jwtReturned) = 2
    /\ adminClient # NoBundle
    /\ jwtReturned[1].client < adminClient.client
    /\ adminClient.client < jwtReturned[2].client
    /\ heap[jwtReturned[1].client].jwt = TokenOf(1)
    /\ heap[jwtReturned[2].client].jwt = TokenOf(2)

-----------------------------------------------------------------------------
(* Properties of session verification, under SpecSession *)

AuthenticationRequired == createError(401, "Authentication required")
InvalidUser == createError(401, "Invalid user")
InvalidOrExpiredSession == createError(401, "Invalid or expired session")

\* a session whose expiry timestamp is at or before the time t
Expired(s, t) == s.expire.valid /\ s.expire.ms <= t

\* C3 (as claimed): a user is returned only if both credentials were extracted
\* non-empty, the lookup of that user id succeeded, and the list returned for
\* that user id holds a session with the claimed id, owned by that user, that
\* is not expired when it is checked.
C3_ReturnsOnlyVerified ==
    \A r \in Requests :
        req[r].outcome.kind = "returned" =>
            /\ ~Falsy(req[r].creds.sessionId)
            /\ ~Falsy(req[r].creds.userId)
            /\ req[r].fetched = UserRecord(req[r].creds.userId)
            /\ ~req[r].listRaised
            /\ \E s \in req[r].listed :
                  /\ s.id = req[r].creds.sessionId
                  /\ s.userId = req[r].creds.userId
                  /\ ~Expired(s, req[r].checkedAt)

\* C4: a request whose extracted session id or user id is null or empty ends,
\* in the step that takes it up, with 401 "Authentication required", the
\* privileged accessor not called, no backend call made, the cache slot and
\* the clients untouched; and the user id extracted is the x-appwrite-user-id
\* header's value, null when the header is absent, whatever the cookies hold.
C4_AuthenticationRequired ==
    [][ \A r \in Requests :
          (req[r].pc = "received" /\ req'[r].pc # "received") =>
            /\ req'[r].creds.userId =
                  (IF "x-appwrite-user-id" \in DOMAIN req[r].event.headers
                   THEN req[r].event.headers["x-appwrite-user-id"] ELSE NULL)
            /\ (Falsy(req'[r].creds.sessionId) \/ Falsy(req'[r].creds.userId)) =>
                  /\ req'[r].pc = "done"
                  /\ req'[r].outcome = Rejected(AuthenticationRequired)
                  /\ ~req'[r].adminCalled
                  /\ req'[r].calls = <<>>
                  /\ adminClient' = adminClient
                  /\ adminReturned' = adminReturned
                  /\ heap' = heap ]_vars

\* C4 witness: with a complete configuration and an empty cache, a request
\* with a bearer session id, no user id header and a cookie naming a user was
\* refused for want of credentials, and the cache is still empty.
C4_Witness ==
    /\ req["r1"].pc = "done"
    /\ req["r1"].creds.sessionId = "s1"
    /\ req["r1"].creds.userId = NULL
    /\ req["r1"].outcome = Rejected(AuthenticationRequired)
    /\ ~Falsy(config.endpoint) /\ ~Falsy(config.projectId) /\ ~Falsy(config.apiKey)
    /\ adminClient = NoBundle
    /\ heap = <<>>

\* C5: when users.get failed, the call ended with 401 "Invalid user" and
\* nothing else in the error (no cause, no text of the backend's error), and
\* users.listSessions was never requested.
C5_InvalidUser ==
    \A r \in Requests :
        (req[r].pc = "done" /\ req[r].calls # <<>> /\ req[r].fetched = NoUser) =>
            /\ req[r].outcome = Rejected(InvalidUser)
            /\ req[r].outcome.error.cause = UNDEFINED
            /\ req[r].outcome.error.statusMessage # req[r].backendError
            /\ req[r].calls = <<"users.get">>

\* C5 witness: the user exists, the lookup failed on the network, and the call
\* ended with "Invalid user".
C5_Witness ==
    /\ req["r1"].pc = "done"
    /\ req["r1"].creds.userId \in users
    /\ req["r1"].backendError = "fetch failed"
    /\ req["r1"].fetched = NoUser
    /\ req["r1"].outcome = Rejected(InvalidUser)

\* C6: when the user was found and then the session listing raised, or the
\* list returned for the user holds no session with the claimed id, the call
\* ended with 401 "Invalid or expired session" and returned no user.
C6_InvalidSession ==
    \A r \in Requests :
        (/\ req[r].pc = "done"
         /\ req[r].fetched # NoUser
         /\ \/ req[r].listRaised
            \/ ~\E s \in req[r].listed : s.id = req[r].creds.sessionId) =>
            req[r].outcome = Rejected(InvalidOrExpiredSession)

\* C6 witness: u1 claimed s2, another user's session that is still there; the
\* list for u1 held u1's own session only, and the call was refused.
C6_Witness ==
    /\ req["r1"].pc = "done"
    /\ req["r1"].creds.userId = "u1"
    /\ req["r1"].creds.sessionId = "s2"
    /\ req["r1"].fetched = UserRecord("u1")
    /\ req["r1"].listed # {}
    /\ \E s \in sessions : s.id = "s2" /\ ~Expired(s, now)
    /\ req["r1"].outcome = Rejected(InvalidOrExpiredSession)

\* C7 (as claimed): when the matching session's expiry timestamp is at or
\* before the time of the check, the call ends with 401 "Invalid or expired
\* session"; it returns the user only when the expiry is after that time.
C7_ExpiredAtOrBeforeNow ==
    \A r \in Requests :
        \A s \in req[r].listed :
            (req[r].pc = "done" /\ s.id = req[r].creds.sessionId /\ s.expire.valid) =>
                /\ s.expire.ms <= req[r].checkedAt =>
                      req[r].outcome = Rejected(InvalidOrExpiredSession)
                /\ req[r].outcome.kind = "returned" =>
                      s.expire.ms > req[r].checkedAt

Is401(e) ==
    /\ e.name = "H3Error"
    /\ e.statusCode = 401
    /\ e.statusMessage \in {"Authentication required", "Invalid user",
                            "Invalid or expired session"}

\* C8 (as claimed): every failing outcome is a 401 with one of the three
\* reasons, whatever the configuration.
C8_Only401 ==
    \A r \in Requests :
        req[r].outcome.kind = "threw" => Is401(req[r].outcome.error)

ConfigurationErrors == {PlainError(MissingEndpointAdmin), PlainError(MissingApiKey)}

\* C8 (amended): a call fails with a 401 with one of the three reasons, or,
\* in the step that takes it up with both credentials present, the cache slot
\* empty and the endpoint, the project id or the API key not configured, with
\* the privileged accessor's configuration error; with nothing else.
C8_401OrConfigurationError ==
    [][ \A r \in Requests :
          (req[r].outcome.kind = "pending" /\ req'[r].outcome.kind = "threw") =>
            \/ Is401(req'[r].outcome.error)
            \/ /\ req'[r].outcome.error \in ConfigurationErrors
               /\ req[r].pc = "received"
               /\ ~Falsy(req'[r].creds.sessionId) /\ ~Falsy(req'[r].creds.userId)
               /\ adminClient = NoBundle /\ adminClient' = NoBundle
               /\ Falsy(config.endpoint) \/ Falsy(config.projectId) \/ Falsy(config.apiKey) ]_vars

\* C8 witness: a request with both credentials met a configuration without
\* API key and failed with the missing-API-key error.
C8_Witness ==
    /\ req["r1"].pc = "done"
    /\ req["r1"].creds.sessionId = "s1"
    /\ req["r1"].creds.userId = "u1"
    /\ req["r1"].outcome = Rejected(PlainError(MissingApiKey))

\* C9: a returned user is the record users.get resolved to for the claimed
\* user id, as it was; the call made users.get and then users.listSessions,
\* once each and nothing else, and no step of a call changes the backend's
\* users or sessions.
C9_ReturnsFetchedUser ==
    [][ /\ req' # req => users' = users /\ sessions' = sessions
        /\ \A r \in Requests :
              /\ req'[r].calls \in {<<>>, <<"users.get">>,
                                    <<"users.get", "users.listSessions">>}
              /\ req'[r].outcome.kind = "returned" =>
                    /\ req'[r].outcome.value = req'[r].fetched
                    /\ req'[r].fetched = UserRecord(req'[r].creds.userId)
                    /\ req'[r].calls = <<"users.get", "users.listSessions">> ]_vars

\* C9 witness: u1, whose record carries a label, was returned with it.
C9_Witness ==
    /\ req["r1"].outcome.kind = "returned"
    /\ req["r1"].creds.userId = "u1"
    /\ req["r1"].outcome.value = [id |-> "u1", labels |-> <<"admin">>]

-----------------------------------------------------------------------------
(* Properties of credential extraction, under SpecExtract *)

Header(e, name) == IF name \in DOMAIN e.headers THEN e.headers[name] ELSE NULL

\* C10: the sources are tried in the order Authorization bearer token, then
\* x-appwrite-session header, then cookies, and the first that yields a value
\* is used: with "Authorization: Bearer X" the session id is X and neither
\* the x-appwrite-session header nor the cookies are read; with no bearer
\* token and a non-empty x-appwrite-session header, the session id is that
\* header's value and the cookies are not read; the cookies are read only when
\* neither header gave a value.
C10_FirstSourceWins ==
    xCreds # NoCreds =>
        /\ "Authorization" \in xCreds.read
        /\ \A X \in {"s1", "s2"} :
              Header(xEvent, "authorization") = "Bearer " \o X =>
                  /\ xCreds.sessionId = X
                  /\ "x-appwrite-session" \notin xCreds.read
                  /\ "cookies" \notin xCreds.read
        /\ Header(xEvent, "authorization") \in {NULL, "Bearer", "Basic s1"} =>
              /\ "x-appwrite-session" \in xCreds.read
              /\ ~Falsy(Header(xEvent, "x-appwrite-session")) =>
                    /\ xCreds.sessionId = Header(xEvent, "x-appwrite-session")
                    /\ "cookies" \notin xCreds.read
              /\ Falsy(Header(xEvent, "x-appwrite-session")) =>
                    "cookies" \in xCreds.read

\* C10 witness: a request with bearer token s1, an x-appwrite-session header
\* s2 and a session cookie s3 for the configured project gave s1.
C10_Witness ==
    /\ xCreds # NoCreds
    /\ Header(xEvent, "authorization") = "Bearer s1"
    /\ Header(xEvent, "x-appwrite-session") = "s2"
    /\ "a_session_p1" \in DOMAIN xEvent.cookies
    /\ xEvent.cookies["a_session_p1"] = "s3"
    /\ config.projectId = "p1"
    /\ xCreds.sessionId = "s1"

-----------------------------------------------------------------------------
(* Properties of module setup, under SpecSetup *)

\* the object the module's keys of k's group live in, or {} when there is none
Namespace(store, k) ==
    LET group == IF k \in PublicKeys THEN store["public"].o ELSE store
    IN  IF "appwrite" \in DOMAIN group /\ group["appwrite"].t = "object"
        THEN group["appwrite"].o ELSE EmptyObject

\* the key is there, whatever its value
Held(store, k) == k \in DOMAIN Namespace(store, k)
\* the key is there with a value that is not null or undefined
HeldValue(store, k) == Held(store, k) /\ Namespace(store, k)[k].t # "nullish"
\* what a reader of the key finds
Found(store, k) == IF Held(store, k) THEN Text(Namespace(store, k)[k]) ELSE UNDEFINED

\* the inline option when non-empty, otherwise the environment variable when
\* set, otherwise the empty string
Expected(k) ==
    IF sOptions[k] # "" THEN sOptions[k]
    ELSE IF EnvName(k) \in DOMAIN sEnv THEN sEnv[EnvName(k)]
    ELSE ""

SameValue(a, b) ==
    /\ a.t = b.t
    /\ a.t = "string" => a.s = b.s
    /\ a.t = "object" => DOMAIN a.o = DOMAIN b.o

\* the keys of object before, other than those in skip, are in object after
\* with the value they had
KeysKept(before, after, skip) ==
    \A key \in DOMAIN before \ skip :
        key \in DOMAIN after /\ SameValue(after[key], before[key])

\* C12, as stated: every key the store had before setup, outside and inside
\* the appwrite namespaces, has its value afterwards, and the module's keys
\* that were absent have the module's resolved value
C12_ExistingKeysKept ==
    sPhase # "configured" =>
        /\ KeysKept(sBefore, sStore, {"public", "appwrite"})
        /\ KeysKept(sBefore["public"].o, sStore["public"].o, {"appwrite"})
        /\ KeysKept(Namespace(sBefore, "endpoint"), Namespace(sStore, "endpoint"), {})
        /\ KeysKept(Namespace(sBefore, "apiKey"), Namespace(sStore, "apiKey"), {})
        /\ \A k \in ModuleKeys :
              ~Held(sBefore, k) => Found(sStore, k) = Expected(k)

\* the keys of object before whose value is not null or undefined
Valued(object) == {key \in DOMAIN object : object[key].t # "nullish"}

\* C12, amended: every key the store had with a value other than null or
\* undefined has that value afterwards, and the module's keys that were absent
\* or null have the module's resolved value
C12_HeldValuesKept ==
    sPhase # "configured" =>
        /\ KeysKept(sBefore, sStore, {"public", "appwrite"})
        /\ KeysKept(sBefore["public"].o, sStore["public"].o, {"appwrite"})
        /\ LET before == Namespace(sBefore, "endpoint")
           IN  KeysKept(before, Namespace(sStore, "endpoint"),
                        DOMAIN before \ Valued(before))
        /\ LET before == Namespace(sBefore, "apiKey")
           IN  KeysKept(before, Namespace(sStore, "apiKey"),
                        DOMAIN before \ Valued(before))
        /\ \A k \in ModuleKeys :
              ~HeldValue(sBefore, k) => Found(sStore, k) = Expected(k)

\* setup has run on a store that had keys of its own next to and inside the
\* public namespace, a value for one of the module's keys that the inline
\* option differs from, and no value for another
C12_Witness ==
    /\ sPhase # "configured"
    /\ "sessionSecret" \in DOMAIN sBefore
    /\ "siteUrl" \in DOMAIN sBefore["public"].o
    /\ "locale" \in DOMAIN Namespace(sBefore, "endpoint")
    /\ \E k1, k2 \in ModuleKeys :
          /\ HeldValue(sBefore, k1) /\ sOptions[k1] # ""
          /\ Found(sStore, k1) = Found(sBefore, k1)
          /\ Found(sStore, k1) # sOptions[k1]
          /\ ~Held(sBefore, k2) /\ sOptions[k2] # ""
          /\ Found(sStore, k2) = sOptions[k2]

\* the deployments that differ from this one in the API key only: in the
\* inline option, in the environment variable, in the store
OtherApiKeys ==
    {[options |-> [sOptions EXCEPT !["apiKey"] = o],
      env |-> [n \in (DOMAIN sEnv \ {EnvName("apiKey")}) \cup e |->
                  IF n = EnvName("apiKey") THEN "env:other" ELSE sEnv[n]],
      store |-> [key \in (DOMAIN sBefore \ {"appwrite"}) \cup p |->
                  IF key = "appwrite" THEN Obj([apiKey |-> Str("pre:other")])
                  ELSE sBefore[key]]] :
        o \in {"", "opt:other"},
        e \in {{}, {EnvName("apiKey")}},
        p \in {{}, {"appwrite"}}}

\* C13: after setup the API key is in the private group of the store only and
\* nowhere in the public group, and the public group, the browser's client
\* and every bundle useAppwriteJWT returned are what they are in every
\* deployment that differs in the API key only
C13_ApiKeyConfined ==
    sPhase # "configured" =>
        /\ Held(sStore, "apiKey")
        /\ "apiKey" \notin DOMAIN Namespace(sStore, "endpoint")
        /\ ~Falsy(Found(sStore, "apiKey")) =>
              /\ \A k \in PublicKeys : Found(sStore, k) # Found(sStore, "apiKey")
              /\ \A key \in DOMAIN sStore["public"].o :
                    Text(sStore["public"].o[key]) # Found(sStore, "apiKey")
        /\ ~Falsy(config.apiKey) =>
              /\ \A f \in {"endpoint", "projectId", "databaseId"} :
                    cConfig[f] # config.apiKey
              /\ plugin.client.key # config.apiKey
              /\ \A i \in 1..Len(jwtReturned) :
                    heap[jwtReturned[i].client].key # config.apiKey
        /\ \A d \in OtherApiKeys :
              LET other == setup(d.options, d.env, d.store)
                  got == useAppwriteJWT(ServerConfig(other), NoBundle, <<>>)
              IN  /\ DOMAIN other["public"].o = DOMAIN sStore["public"].o
                  /\ KeysKept(sStore["public"].o, other["public"].o, {"appwrite"})
                  /\ Namespace(other, "endpoint") = Namespace(sStore, "endpoint")
                  /\ plugin.provided =>
                        plugin = PluginRun(PluginLoaded, PublicConfig(other))
                  /\ \A i \in 1..Len(jwtReturned) :
                        /\ ~got.threw
                        /\ got.value.services = jwtReturned[i].services
                        /\ got.heap[got.value.client] = heap[jwtReturned[i].client]
                  /\ (lastCall.op = "useAppwriteJWT" /\ lastCall.threw) =>
                        got.threw /\ got.error = lastCall.error

\* the server runs with an API key, has built the privileged client with it,
\* has handed out a useAppwriteJWT bundle, and a page has run the plugin
C13_Witness ==
    /\ sPhase = "serving"
    /\ ~Falsy(config.apiKey)
    /\ adminClient # NoBundle
    /\ heap[adminClient.client].key = config.apiKey
    /\ Len(jwtReturned) >= 1
    /\ plugin.provided
    /\ ~Falsy(plugin.client.endpoint)

-----------------------------------------------------------------------------
(* Properties of the accessors under an incomplete configuration, under Spec *)

\* the endpoint or the project id is empty
Incomplete(cfg) == Falsy(cfg.endpoint) \/ Falsy(cfg.projectId)
\* the endpoint and the project id are there, the API key is not
OnlyKeyMissing(cfg) == ~Incomplete(cfg) /\ Falsy(cfg.apiKey)

\* the call of this step threw error e and built, returned and cached nothing
FailedWith(op, e) ==
    /\ lastCall'.op = op
    /\ lastCall'.threw
    /\ lastCall'.error = PlainError(e)
    /\ lastCall'.error.statusCode # 401
    /\ lastCall'.error # PlainError(MissingApiKey)
    /\ lastCall'.value = NoBundle
    /\ UNCHANGED <<heap, adminClient, adminReturned, jwtReturned>>

\* C14, as stated: whenever the endpoint or the project id is empty, a call of
\* useAppwriteAdmin and a call of useAppwriteJWT both fail with the missing
\* endpoint/project error of the accessor, never with a 401 and never with the
\* missing-API-key error, and nothing is built, returned or cached
C14_IncompleteAlwaysFails ==
    [][/\ (AdminCall /\ Incomplete(config)) =>
              FailedWith("useAppwriteAdmin", MissingEndpointAdmin)
       /\ (JWTCall /\ Incomplete(config)) =>
              FailedWith("useAppwriteJWT", MissingEndpointJWT)]_vars

\* C14, amended: whenever the endpoint or the project id is empty, a call of
\* useAppwriteJWT, and a call of useAppwriteAdmin made while the cache slot is
\* empty, fail with the missing endpoint/project error of the accessor, never
\* with a 401 and never with the missing-API-key error, and nothing is built,
\* returned or cached
C14_IncompleteFailsUnlessCached ==
    [][/\ (AdminCall /\ Incomplete(config) /\ adminClient = NoBundle) =>
              FailedWith("useAppwriteAdmin", MissingEndpointAdmin)
       /\ (JWTCall /\ Incomplete(config)) =>
              FailedWith("useAppwriteJWT", MissingEndpointJWT)]_vars

\* useAppwriteAdmin has just failed for the missing endpoint or project id
\* although the API key is missing too
C14_Witness ==
    /\ Incomplete(config)
    /\ Falsy(config.apiKey)
    /\ lastCall.op = "useAppwriteAdmin"
    /\ lastCall.threw
    /\ lastCall.error = PlainError(MissingEndpointAdmin)
    /\ adminClient = NoBundle

\* the call of this step returned a new bundle on a client that has the
\* endpoint and the project id of the configuration and no key
FreshJWTBundle ==
    /\ lastCall'.op = "useAppwriteJWT"
    /\ ~lastCall'.threw
    /\ jwtReturned' = Append(jwtReturned, lastCall'.value)
    /\ lastCall'.value.client = Len(heap) + 1
    /\ Len(heap') = Len(heap) + 1
    /\ heap'[Len(heap')] = [NewClient EXCEPT !.endpoint = config.endpoint,
                                             !.project = config.projectId]

\* the call of this step threw the missing-API-key error, which is not the
\* missing endpoint/project error
FailedForKey ==
    /\ lastCall'.op = "useAppwriteAdmin"
    /\ lastCall'.threw
    /\ lastCall'.error = PlainError(MissingApiKey)
    /\ lastCall'.error # PlainError(MissingEndpointAdmin)
    /\ UNCHANGED <<heap, adminClient, adminReturned>>

\* C15, as stated: with the endpoint and the project id non-empty and the API
\* key empty, a call of useAppwriteAdmin fails with the missing-API-key error
\* and a call of useAppwriteJWT succeeds
C15_KeyMissingAdminFails ==
    [][/\ (AdminCall /\ OnlyKeyMissing(config)) => FailedForKey
       /\ (JWTCall /\ OnlyKeyMissing(config)) => FreshJWTBundle]_vars

\* C15, amended: with the endpoint and the project id non-empty and the API
\* key empty, a call of useAppwriteAdmin made while the cache slot is empty
\* fails with the missing-API-key error and a call of useAppwriteJWT succeeds
C15_KeyMissingAdminFailsUnlessCached ==
    [][/\ (AdminCall /\ OnlyKeyMissing(config) /\ adminClient = NoBundle) =>
              FailedForKey
       /\ (JWTCall /\ OnlyKeyMissing(config)) => FreshJWTBundle]_vars

\* under one configuration without API key useAppwriteJWT has returned a
\* bundle and useAppwriteAdmin has then failed for the key
C15_Witness ==
    /\ OnlyKeyMissing(config)
    /\ adminClient = NoBundle
    /\ lastCall.op = "useAppwriteAdmin"
    /\ lastCall.threw
    /\ lastCall.error = PlainError(MissingApiKey)
    /\ Len(jwtReturned) >= 1
    /\ heap[jwtReturned[1].client].endpoint = config.endpoint
    /\ heap[jwtReturned[1].client].project = config.projectId

\* C20: a useAppwriteAdmin call that fails leaves the cache slot empty, as it
\* found it; a call that finds the slot empty and the configuration complete
\* builds from the configuration of that moment, returns and caches; and the
\* slot is empty exactly as long as no call has returned a bundle
C20_FailureNotSticky ==
    [][/\ (AdminCall /\ lastCall'.threw) =>
              /\ adminClient = NoBundle
              /\ UNCHANGED <<heap, adminClient, adminReturned>>
       /\ (AdminCall /\ adminClient = NoBundle
              /\ ~Incomplete(config) /\ ~Falsy(config.apiKey)) =>
              /\ ~lastCall'.threw
              /\ adminClient' = lastCall'.value
              /\ adminClient' # NoBundle
              /\ heap'[adminClient'.client] =
                    [NewClient EXCEPT !.endpoint = config.endpoint,
                                      !.project = config.projectId,
                                      !.key = config.apiKey]
       /\ adminClient # adminClient' =>
              /\ adminClient = NoBundle
              /\ adminReturned' = {adminClient'}
       /\ (adminClient = NoBundle) <=> (adminReturned = {})
       /\ (adminClient' = NoBundle) <=> (adminReturned' = {})]_vars

\* a session verification failed on the privileged accessor's configuration
\* error, the configuration was then completed, and a direct call has built
\* and cached the bundle
C20_Witness ==
    /\ \E r \in Requests :
          /\ req[r].pc = "done"
          /\ req[r].outcome.kind = "threw"
          /\ req[r].outcome.error \in {PlainError(MissingEndpointAdmin),
                                       PlainError(MissingApiKey)}
    /\ lastCall.op = "useAppwriteAdmin"
    /\ ~lastCall.threw
    /\ adminClient = lastCall.value
    /\ adminClient # NoBundle

-----------------------------------------------------------------------------
(* Properties of hasRole, under SpecRole *)

\* membership i of the fetched list is one of the current user, confirmed
OfCurrentUser(i) ==
    /\ hr.memberships[i].userId = hr.currentUser
    /\ hr.memberships[i].confirm

\* both lookups of a call in a page have succeeded and the call has returned
BothLookupsSucceeded ==
    /\ hr.pc = "done"
    /\ ~hr.server
    /\ hr.currentUser # NULL

\* C16, as stated: where both lookups succeed, hasRole returns true exactly
\* when the fetched list contains a confirmed membership of the current user
\* whose roles include the role
C16_TrueIffSomeMembership ==
    BothLookupsSucceeded =>
        /\ ~hr.threw
        /\ hr.value = \E i \in 1..Len(hr.memberships) :
                          OfCurrentUser(i) /\ Includes(hr.memberships[i].roles, hr.role)

\* C16, amended: where both lookups succeed, hasRole returns true exactly when
\* the first confirmed membership of the current user in the fetched list has
\* the role among its roles; it returns false when only a later one has it
C16_TrueIffFirstMembership ==
    BothLookupsSucceeded =>
        /\ ~hr.threw
        /\ hr.value = \E i \in 1..Len(hr.memberships) :
                          /\ OfCurrentUser(i)
                          /\ Includes(hr.memberships[i].roles, hr.role)
                          /\ \A j \in 1..(i - 1) : ~OfCurrentUser(j)

\* the list had two confirmed memberships of the current user, the second
\* alone with the role, and hasRole returned false
C16_Witness ==
    /\ BothLookupsSucceeded
    /\ Len(hr.memberships) = 2
    /\ OfCurrentUser(1) /\ OfCurrentUser(2)
    /\ ~Includes(hr.memberships[1].roles, hr.role)
    /\ Includes(hr.memberships[2].roles, hr.role)
    /\ hr.value = FALSE

\* C17: hasRole never raises and its value is a boolean; a call in which a
\* lookup failed returns false; a call outside the browser returns false and
\* issues no lookup
C17_HasRoleNeverThrows ==
    /\ ~hr.threw
    /\ hr.value \in BOOLEAN
    /\ (hr.pc = "done" /\ hr.currentUser = NULL) => hr.value = FALSE
    /\ hr.server => (hr.pc = "done" /\ hr.calls = <<>> /\ hr.value = FALSE)
    /\ hr.pc # "done" => hr.value = FALSE

\* teams.listMemberships gave a list in which a confirmed membership has the
\* role, account.get then failed, and hasRole returned false
C17_Witness ==
    /\ hr.pc = "done"
    /\ ~hr.server
    /\ Len(hr.calls) = 2
    /\ hr.currentUser = NULL
    /\ \E i \in 1..Len(hr.memberships) :
          /\ hr.memberships[i].confirm
          /\ Includes(hr.memberships[i].roles, hr.role)
    /\ hr.value = FALSE
    /\ ~hr.threw

-----------------------------------------------------------------------------
(* Properties of the credential extraction's cookie fallback, under SpecExtract *)

\* the session id the two headers give, NULL when they give none
HeaderSession ==
    IF ~Falsy(BearerToken(xEvent)) THEN BearerToken(xEvent)
    ELSE IF ~Falsy(Header(xEvent, "x-appwrite-session"))
    THEN Header(xEvent, "x-appwrite-session")
    ELSE NULL

\* the value of a cookie of the request, NULL when it has none of that name
Cookie(name) ==
    IF name \in DOMAIN xEvent.cookies THEN xEvent.cookies[name] ELSE NULL

\* C18: the session id comes from a cookie only when neither header gave a
\* non-empty session id and the project id is non-empty; then it is the value
\* of the cookie a_session_<projectId> when that cookie supplies a session id,
\* and the value of a_session_<projectId>_legacy whenever it does not
C18_LegacyWheneverCurrentGivesNone ==
    xCreds # NoCreds =>
        LET current == Cookie("a_session_" \o config.projectId)
            legacy == Cookie("a_session_" \o config.projectId \o "_legacy")
        IN  /\ "cookies" \in xCreds.read => HeaderSession = NULL
            /\ HeaderSession # NULL => xCreds.sessionId = HeaderSession
            /\ (HeaderSession = NULL /\ Falsy(config.projectId)) =>
                  Falsy(xCreds.sessionId)
            /\ (HeaderSession = NULL /\ ~Falsy(config.projectId)) =>
                  IF ~Falsy(current) THEN xCreds.sessionId = current
                  ELSE IF ~Falsy(legacy) THEN xCreds.sessionId = legacy
                  ELSE Falsy(xCreds.sessionId)

-----------------------------------------------------------------------------
(* Properties of the database helpers, under SpecQuery *)

\* C19: query and getDocument call the database service with the databaseId
\* override when one is given and non-empty and with the configured default
\* otherwise, the empty override included; the collection id, the document id
\* and the filters go through unchanged, and what the service answers is what
\* the helper returns
C19_DatabaseIdAndPassThrough ==
    dbCall.pc # "idle" =>
        /\ dbCall.sent.method = IF dbCall.helper = "query"
                                THEN "databases.listDocuments"
                                ELSE "databases.getDocument"
        /\ dbCall.sent.databaseId =
              IF dbCall.given.databaseId \notin {UNDEFINED, ""}
              THEN dbCall.given.databaseId ELSE cConfig.databaseId
        /\ dbCall.sent.collectionId = dbCall.given.collectionId
        /\ dbCall.sent.documentId = dbCall.given.documentId
        /\ dbCall.sent.queries = dbCall.given.queries
        /\ (dbCall.pc = "done" /\ ~dbCall.threw) => dbCall.value = dbCall.answer
        /\ (dbCall.pc = "done" /\ dbCall.threw) =>
              dbCall.error \in DbErrors /\ dbCall.value = NoDbResult

\* getDocument was called with filters and an empty databaseId override where
\* a default is configured: the service was asked under the default and its
\* answer came back
C19_Witness ==
    /\ dbCall.pc = "done"
    /\ dbCall.helper = "getDocument"
    /\ dbCall.given.databaseId = ""
    /\ dbCall.given.queries # <<>>
    /\ cConfig.databaseId = "db1"
    /\ dbCall.sent.databaseId = "db1"
    /\ dbCall.sent.documentId = "d2"
    /\ ~dbCall.threw
    /\ dbCall.value.total = 2

-----------------------------------------------------------------------------
(* Properties of the expiry test on an expire text that is no date, under  *)
(* SpecSession                                                             *)

\* C21: a call whose user lookup succeeded and whose session list holds the
\* claimed session with an expire value that is no timestamp ends with 401
\* "Invalid or expired session" and returns no user
C21_UnreadableExpireRejected ==
    \A r \in Requests :
        \A s \in req[r].listed :
            (/\ req[r].pc = "done"
             /\ req[r].fetched # NoUser
             /\ s.id = req[r].creds.sessionId
             /\ ~s.expire.valid) =>
                /\ req[r].outcome.kind # "returned"
                /\ req[r].outcome = Rejected(InvalidOrExpiredSession)

-----------------------------------------------------------------------------
(* Properties of the browser's service bundle, under SpecPage *)

\* the endpoint or the project id of the public configuration is missing
PublicIncomplete == Falsy(cConfig.endpoint) \/ Falsy(cConfig.projectId)

\* the calls made in the browser
BrowserCalls == {i \in 1..Len(ua.log) : ~ua.log[i].server}

====
